---- MODULE Spec2Model ----
(***************************************************************************)
(* aictx: the indexing -> validation -> manifest pipeline over a           *)
(* convention root (rules/*.md, tasks/<dir>/{spec,context,...}.md).        *)
(*                                                                         *)
(* Strings that the code concatenates, compares or sorts (ids, directory   *)
(* names, index keys, file content) are sequences of tokens.  The token    *)
(* alphabet is prefix-free, so the concatenation of tokens is uniquely     *)
(* decodable and the lexicographic order of token sequences under TokRank  *)
(* is the order of the strings they spell.                                 *)
(***************************************************************************)
EXTENDS Integers, Sequences, FiniteSets, TLC

VARIABLES rules, tasks, out, manifestFile, stateFile,
          adapter, exported, sample, digest

\* rules, tasks: the files under rules/ and tasks/.  out: what the last
\* command computed and how it exited.  manifestFile, stateFile:
\* manifests.yaml and state/last_manifest.yaml.  adapter: the declaration
\* adapters/<name>/context.json.  exported: the adapter's output directory.
\* sample, digest: an input of the pure conversions and what they return.
vars == <<rules, tasks, out, manifestFile, stateFile, adapter, exported, sample, digest>>

\* What the pipeline commands and the edits of the tree never touch.
xvars == <<adapter, exported, sample, digest>>

\* Python's None for a scalar frontmatter field.
None == "none"

----------------------------------------------------------------------------
\* Generic sequence helpers.

RECURSIVE Concat(_)
Concat(ss) == IF ss = <<>> THEN <<>> ELSE Head(ss) \o Concat(Tail(ss))

Reverse(s) == [i \in 1..Len(s) |-> s[Len(s) + 1 - i]]

Range(s) == {s[i] : i \in 1..Len(s)}

\* str.endswith / str.startswith on token sequences.
EndsWith(s, suf) ==
    /\ Len(s) >= Len(suf)
    /\ SubSeq(s, Len(s) - Len(suf) + 1, Len(s)) = suf

\* Position of the first occurrence of token t in s, 0 when absent.
FirstPos(s, t) ==
    IF \E i \in 1..Len(s) : s[i] = t
    THEN CHOOSE i \in 1..Len(s) : s[i] = t /\ \A j \in 1..(i - 1) : s[j] # t
    ELSE 0

\* str.replace(t, "", 1): drop the first occurrence of token t.
ReplaceFirst(s, t) ==
    LET p == FirstPos(s, t) IN
    IF p = 0 THEN s ELSE SubSeq(s, 1, p - 1) \o SubSeq(s, p + 1, Len(s))

----------------------------------------------------------------------------
\* String order (list.sort / sorted on str): code-point order of the tokens.

TokRank(t) ==
    CASE t = "-context" -> 1
      [] t = "-implementation" -> 2
      [] t = "-plan" -> 3
      [] t = "-review" -> 4
      [] t = "-spec" -> 5
      [] t = "-tests-review" -> 6
      [] t = "Q" -> 7
      [] t = "R" -> 8
      [] t = "T" -> 9
      [] t = "U" -> 10
      [] t = "X" -> 11

RECURSIVE StrLess(_, _)
StrLess(a, b) ==
    IF b = <<>> THEN FALSE
    ELSE IF a = <<>> THEN TRUE
    ELSE IF Head(a) = Head(b) THEN StrLess(Tail(a), Tail(b))
    ELSE TokRank(Head(a)) < TokRank(Head(b))

----------------------------------------------------------------------------
\* config.py enums and indexer.py required-file sets.

STATUS_VALUES == {"active", "historical", "obsolete"}
COMPLEXITY_VALUES == {"trivial", "normal", "critical"}

TRIVIAL_FILES == {"spec.md", "implementation.md"}
NORMAL_FILES == {"spec.md", "plan.md", "implementation.md", "tests-review.md"}
CRITICAL_FILES ==
    {"spec.md", "context.md", "plan.md", "implementation.md", "review.md",
     "tests-review.md"}

\* The artifact file names build_index looks for, in the order of its loop.
ArtOrder == <<"context.md", "plan.md", "implementation.md", "review.md", "tests-review.md">>
ArtNames == Range(ArtOrder)

\* name.removesuffix('.md')
Stem(name) ==
    CASE name = "spec.md" -> "spec"
      [] name = "context.md" -> "context"
      [] name = "plan.md" -> "plan"
      [] name = "implementation.md" -> "implementation"
      [] name = "review.md" -> "review"
      [] name = "tests-review.md" -> "tests-review"

\* The "-<artifactname>" part of a composite key, as one token.
Suffix(name) == "-" \o Stem(name)

----------------------------------------------------------------------------
\* Files.  A file is what is on disk at one path: whether it exists, whether
\* its content opens with a well-formed frontmatter mapping (head), the
\* mapping's values, and the body text after it.

NoFile ==
    [exists |-> FALSE, head |-> FALSE, id |-> <<>>, kind |-> None,
     status |-> None, complexity |-> None, refs |-> <<>>, body |-> <<>>]

MkFile(id, kind, status, complexity, refs, body) ==
    [exists |-> TRUE, head |-> TRUE, id |-> id, kind |-> kind,
     status |-> status, complexity |-> complexity, refs |-> refs, body |-> body]

\* A file whose content does not start with the --- delimiter.
BadFile(body) == [NoFile EXCEPT !.exists = TRUE, !.body = body]

RulePath(name) == [top |-> "rules", parent |-> <<"rules">>, file |-> name]
TaskPath(dir, name) == [top |-> "tasks", parent |-> dir, file |-> name]

\* The file at a path of the tree (rs: rules/, ts: tasks/).
FileAt(rs, ts, path) ==
    IF path.top = "rules" THEN rs[path.file]
    ELSE IF path.file = "spec.md" THEN ts[path.parent].spec
    ELSE ts[path.parent].arts[path.file]

----------------------------------------------------------------------------
\* document.py: parse_document and validate_document_schema.

\* parse_frontmatter raises unless the content opens with a frontmatter
\* mapping; parse_document raises unless the mapping has id and kind.
ParseOk(f) == f.head /\ f.id # <<>> /\ f.kind # None

ParseDocument(path, f) ==
    [path |-> path, id |-> f.id, kind |-> f.kind, status |-> f.status,
     complexity |-> f.complexity, refs |-> f.refs]

Err(path, msg, arg) == [path |-> path, msg |-> msg, arg |-> arg]

\* validate_document_schema without the test of status against the enum.
SchemaMessageNoStatusEnum(doc) ==
    IF doc.kind = "spec" THEN
        IF doc.id = <<>> THEN "spec requires field: id"
        ELSE IF doc.status = None THEN "spec requires field: status"
        ELSE IF doc.complexity = None THEN "spec requires field: complexity"
        ELSE IF doc.complexity \notin COMPLEXITY_VALUES THEN "complexity must be one of"
        ELSE "ok"
    ELSE "ok"

\* The message validate_document_schema raises for doc, "ok" when it returns.
SchemaMessage(doc) ==
    IF doc.kind = "spec" THEN
        IF doc.id = <<>> THEN "spec requires field: id"
        ELSE IF doc.status = None THEN "spec requires field: status"
        ELSE IF doc.complexity = None THEN "spec requires field: complexity"
        ELSE IF doc.status \notin STATUS_VALUES THEN "status must be one of"
        ELSE IF doc.complexity \notin COMPLEXITY_VALUES THEN "complexity must be one of"
        ELSE "ok"
    ELSE IF doc.kind = "rule" THEN
        IF doc.id = <<>> THEN "rule requires field: id" ELSE "ok"
    ELSE
        IF doc.id = <<>> \/ doc.kind = None THEN "document must have id and kind"
        ELSE "ok"

----------------------------------------------------------------------------
\* indexer.py.  The index is a Python dict: a sequence of [key, doc] entries
\* in insertion order, with unique keys.

\* sorted(rules_dir.glob("*.md")) and sorted(tasks_dir.iterdir()).
\* MaxRules bounds the number of files under rules/.
MaxRules == 2
RuleOrder == SubSeq(<<"a.md", "b.md", "c.md">>, 1, MaxRules)
DirT == <<"T">>
DirTsU == <<"T", "-spec", "U">>
DirTUs == <<"T", "U", "-spec">>
DirOrder == <<DirT, DirTsU, DirTUs>>

RuleNames == Range(RuleOrder)
TaskDirs == Range(DirOrder)

collect_rules(rs) == SelectSeq(RuleOrder, LAMBDA n : rs[n].exists)

collect_task_dirs(ts) == SelectSeq(DirOrder, LAMBDA d : ts[d].spec.exists)

\* required_files_for_complexity with the critical tier falling to the default.
RequiredFilesNoCritical(complexity) ==
    IF complexity = "trivial" THEN TRIVIAL_FILES ELSE NORMAL_FILES

required_files_for_complexity(complexity) ==
    IF complexity = "trivial" THEN TRIVIAL_FILES
    ELSE IF complexity = "critical" THEN CRITICAL_FILES
    ELSE NORMAL_FILES

HasKey(index, key) == \E i \in 1..Len(index) : index[i].key = key

\* index.get(key): the document, or NoDoc.
NoDoc ==
    [path |-> [top |-> "none", parent |-> <<>>, file |-> "none"], id |-> <<>>,
     kind |-> None, status |-> None, complexity |-> None, refs |-> <<>>]

Lookup(index, key) ==
    IF HasKey(index, key)
    THEN index[CHOOSE i \in 1..Len(index) : index[i].key = key].doc
    ELSE NoDoc

Keys(index) == {index[i].key : i \in 1..Len(index)}

EmptyAcc == [index |-> <<>>, errors |-> <<>>]

\* One pass of the body of a try block: parse, then the duplicate test.
IndexFile(acc, path, f, key, dupmsg) ==
    IF ~ParseOk(f) THEN [acc EXCEPT !.errors = Append(@, Err(path, "parse", <<>>))]
    ELSE IF HasKey(acc.index, key)
    THEN [acc EXCEPT !.errors = Append(@, Err(path, dupmsg, key))]
    ELSE [acc EXCEPT !.index = Append(@, [key |-> key, doc |-> ParseDocument(path, f)])]

\* Loop over collect_rules: a rule is keyed by its own id.
RECURSIVE IndexRules(_, _, _)
IndexRules(acc, rs, names) ==
    IF names = <<>> THEN acc
    ELSE LET f == rs[Head(names)] IN
         IndexRules(IndexFile(acc, RulePath(Head(names)), f, f.id, "duplicate id"),
                    rs, Tail(names))

\* Inner loop over the artifact names of one task directory.
RECURSIVE IndexArtifacts(_, _, _, _)
IndexArtifacts(acc, ts, dir, names) ==
    IF names = <<>> THEN acc
    ELSE LET f == ts[dir].arts[Head(names)]
             next == IF ~f.exists THEN acc
                     ELSE IndexFile(acc, TaskPath(dir, Head(names)), f,
                                    dir \o <<Suffix(Head(names))>>, "duplicate key")
         IN IndexArtifacts(next, ts, dir, Tail(names))

\* One task directory: its spec, then its artifacts.  A spec whose key is
\* already used hits `continue` of the directory loop, so the artifacts of
\* that directory are not visited; a spec that fails to parse does not.
IndexTaskDir(acc, ts, dir) ==
    LET f == ts[dir].spec
        spec_id == dir \o <<"-spec">>
        afterSpec == IndexFile(acc, TaskPath(dir, "spec.md"), f, spec_id, "duplicate id")
    IN IF ParseOk(f) /\ HasKey(acc.index, spec_id) THEN afterSpec
       ELSE IndexArtifacts(afterSpec, ts, dir, ArtOrder)

RECURSIVE IndexTasks(_, _, _)
IndexTasks(acc, ts, dirs) ==
    IF dirs = <<>> THEN acc
    ELSE IndexTasks(IndexTaskDir(acc, ts, Head(dirs)), ts, Tail(dirs))

build_index(rs, ts) ==
    IndexTasks(IndexRules(EmptyAcc, rs, collect_rules(rs)), ts, collect_task_dirs(ts))

\* collect_relations: one record per reference entry, from = index key.
RECURSIVE collect_relations(_)
collect_relations(index) ==
    IF index = <<>> THEN <<>>
    ELSE [i \in 1..Len(Head(index).doc.refs) |->
             [from |-> Head(index).key, to |-> Head(index).doc.refs[i], type |-> "uses"]]
         \o collect_relations(Tail(index))

----------------------------------------------------------------------------
\* validate.py.

\* ref_exists without the <id>-spec fallback.
RefExistsNoFallback(ref_id, index) == HasKey(index, ref_id)

ref_exists(ref_id, index) ==
    IF HasKey(index, ref_id) THEN TRUE
    ELSE IF HasKey(index, ref_id \o <<"-spec">>) THEN TRUE
    ELSE FALSE

\* The names validate_required_files can ask for, as CRITICAL_FILES lists them.
FileOrder ==
    <<"spec.md", "context.md", "plan.md", "implementation.md", "review.md",
      "tests-review.md">>

\* The orders in which a loop over the set S can visit it.
IterationOrders(S) ==
    {p \in [1..Cardinality(S) -> S] : \A n \in S : \E i \in 1..Cardinality(S) : p[i] = n}

\* Iterating a Python set of str visits it in an order that depends on the
\* hash seed of the process and on the set.  `order` is what one run gets:
\* an iteration order for each of the three sets the loop can be handed.
HashOrders ==
    [trivial : IterationOrders(TRIVIAL_FILES),
     normal : IterationOrders(NORMAL_FILES),
     critical : IterationOrders(CRITICAL_FILES)]

\* The order in which this run visits the set `required`.
IterationOrder(order, required) ==
    IF required = TRIVIAL_FILES THEN order.trivial
    ELSE IF required = CRITICAL_FILES THEN order.critical
    ELSE order.normal

OnDisk(ts, dir, name) ==
    IF name = "spec.md" THEN ts[dir].spec.exists ELSE ts[dir].arts[name].exists

\* The body of the loop over collect_task_dirs for one directory.
RequiredErrorsOf(ts, index, dir, order) ==
    LET spec_id == dir \o <<"-spec">> IN
    IF ~HasKey(index, spec_id) THEN <<>>
    ELSE LET c == Lookup(index, spec_id).complexity
             complexity == IF c = None THEN "normal" ELSE c
             required == required_files_for_complexity(complexity)
             missing == SelectSeq(IterationOrder(order, required),
                                  LAMBDA n : ~OnDisk(ts, dir, n))
         IN [i \in 1..Len(missing) |->
                Err(TaskPath(dir, missing[i]), "required file missing", <<complexity>>)]

RECURSIVE RequiredLoop(_, _, _, _)
RequiredLoop(ts, index, dirs, order) ==
    IF dirs = <<>> THEN <<>>
    ELSE RequiredErrorsOf(ts, index, Head(dirs), order)
         \o RequiredLoop(ts, index, Tail(dirs), order)

validate_required_files(ts, index, order) ==
    RequiredLoop(ts, index, collect_task_dirs(ts), order)

RefErrorsOf(doc, index) ==
    LET bad == SelectSeq(doc.refs, LAMBDA r : ~ref_exists(r, index)) IN
    [i \in 1..Len(bad) |-> Err(doc.path, "reference to unknown id", bad[i])]

RECURSIVE RefLoop(_, _)
RefLoop(entries, index) ==
    IF entries = <<>> THEN <<>>
    ELSE RefErrorsOf(Head(entries).doc, index) \o RefLoop(Tail(entries), index)

validate_references(index) == RefLoop(index, index)

\* The loop of run_validate over the index that calls validate_document_schema.
RECURSIVE SchemaLoop(_)
SchemaLoop(entries) ==
    IF entries = <<>> THEN <<>>
    ELSE LET m == SchemaMessage(Head(entries).doc)
         IN (IF m = "ok" THEN <<>> ELSE <<Err(Head(entries).doc.path, m, <<>>)>>)
            \o SchemaLoop(Tail(entries))

\* run_validate without the early return on indexing errors.
RunValidateNoShortCircuit(rs, ts, order) ==
    LET bi == build_index(rs, ts)
        errors == bi.errors
                  \o SchemaLoop(bi.index)
                  \o validate_required_files(ts, bi.index, order)
                  \o validate_references(bi.index)
    IN [ok |-> errors = <<>>, errors |-> errors, index |-> bi.index]

\* run_validate returning as soon as one check has found errors.
RunValidateFirstFailingCheck(rs, ts, order) ==
    LET bi == build_index(rs, ts)
        schema == SchemaLoop(bi.index)
        required == validate_required_files(ts, bi.index, order)
        errors == IF bi.errors # <<>> THEN bi.errors
                  ELSE IF schema # <<>> THEN schema
                  ELSE IF required # <<>> THEN required
                  ELSE validate_references(bi.index)
    IN [ok |-> errors = <<>>, errors |-> errors, index |-> bi.index]

run_validate(rs, ts, order) ==
    LET bi == build_index(rs, ts) IN
    IF bi.errors # <<>> THEN [ok |-> FALSE, errors |-> bi.errors, index |-> bi.index]
    ELSE LET errors == SchemaLoop(bi.index)
                       \o validate_required_files(ts, bi.index, order)
                       \o validate_references(bi.index)
         IN [ok |-> errors = <<>>, errors |-> errors, index |-> bi.index]

\* The files of the set S that a task directory whose spec asks for S lacks:
\* the iterations of the loop that append an error.
Reported(ts, S) ==
    {n \in S : \E i \in 1..Len(collect_task_dirs(ts)) :
         LET dir == collect_task_dirs(ts)[i]
             c == ts[dir].spec.complexity
         IN /\ ParseOk(ts[dir].spec)
            /\ required_files_for_complexity(IF c = None THEN "normal" ELSE c) = S
            /\ ~OnDisk(ts, dir, n)}

\* Where the loop visits a file that is on disk leaves no trace.  These are
\* the iteration orders of S with those files first: one for each order of
\* the iterations that append an error.
OrdersOfSet(ts, S) ==
    {SelectSeq(FileOrder, LAMBDA n : n \in S \ Reported(ts, S)) \o p :
        p \in IterationOrders(Reported(ts, S))}

\* A subset of HashOrders on which run_validate takes every value it takes
\* on HashOrders for the tree ts.
OrdersOf(ts) ==
    [trivial : OrdersOfSet(ts, TRIVIAL_FILES),
     normal : OrdersOfSet(ts, NORMAL_FILES),
     critical : OrdersOfSet(ts, CRITICAL_FILES)]

----------------------------------------------------------------------------
\* File content and checksums (document.py, manifest.py).

Line(k, v) == <<k>> \o v \o <<"\n">>

\* The text parse_frontmatter reads the mapping from: one line per key present.
Frontmatter(f) ==
    <<"---", "\n">>
    \o Line("id:", f.id)
    \o (IF f.kind = None THEN <<>> ELSE Line("kind:", <<f.kind>>))
    \o (IF f.status = None THEN <<>> ELSE Line("status:", <<f.status>>))
    \o (IF f.complexity = None THEN <<>> ELSE Line("complexity:", <<f.complexity>>))
    \o Concat([i \in 1..Len(f.refs) |-> Line("ref:", f.refs[i])])
    \o <<"---", "\n">>

\* path.read_text(): the whole content of the file.
Raw(f) == IF f.head THEN Frontmatter(f) \o f.body ELSE f.body

\* The characters str.strip() removes: those for which str.isspace() holds.
\* A token "U+wxyz" stands for the character of that code point.
Whitespace ==
    {" ", "\t", "\n", "\r", "\f", "U+000B", "U+001C", "U+001D", "U+001E", "U+001F",
     "U+0085", "U+00A0", "U+1680", "U+2000", "U+2001", "U+2002", "U+2003",
     "U+2004", "U+2005", "U+2006", "U+2007", "U+2008", "U+2009", "U+200A",
     "U+2028", "U+2029", "U+202F", "U+205F", "U+3000"}

\* str.replace("\r\n", "\n"), left to right.
RECURSIVE ReplaceCRLF(_)
ReplaceCRLF(s) ==
    IF s = <<>> THEN <<>>
    ELSE IF Len(s) >= 2 /\ s[1] = "\r" /\ s[2] = "\n"
    THEN <<"\n">> \o ReplaceCRLF(SubSeq(s, 3, Len(s)))
    ELSE <<Head(s)>> \o ReplaceCRLF(Tail(s))

\* str.replace("\r", "\n")
ReplaceCR(s) == [i \in 1..Len(s) |-> IF s[i] = "\r" THEN "\n" ELSE s[i]]

RECURSIVE LStrip(_)
LStrip(s) ==
    IF s # <<>> /\ Head(s) \in Whitespace THEN LStrip(Tail(s)) ELSE s

\* str.strip()
Strip(s) == Reverse(LStrip(Reverse(LStrip(s))))

\* normalized_content_for_checksum leaving a lone \r as it is.
NormalizedKeepingCR(raw) == Strip(ReplaceCRLF(raw))

\* normalized_content_for_checksum: the bytes fed to the hash.
normalized_content_for_checksum(raw) == Strip(ReplaceCR(ReplaceCRLF(raw)))

\* SHA-256 is taken as collision-free: a digest is identified with the bytes
\* hashed.  h.update(a); h.update(b) hashes the concatenation a + b.
Sha256(bytes) == <<"sha256:">> \o bytes

content_checksum(raw) == Sha256(Strip(ReplaceCR(ReplaceCRLF(raw))))

\* The task id aggregated_checksum derives from the key of an active spec.
TaskIdOfKey(doc_id) ==
    IF EndsWith(doc_id, <<"-spec">>) THEN ReplaceFirst(doc_id, "-spec") ELSE doc_id

active_spec_ids(index) ==
    {TaskIdOfKey(index[i].key) :
        i \in {j \in 1..Len(index) :
                 index[j].doc.kind = "spec" /\ index[j].doc.status = "active"}}

ArtifactKinds == {"context", "plan", "implementation", "review", "tests-review"}

\* The test of the second loop of aggregated_checksum on one index entry.
IsEligible(e, index, read_mode) ==
    IF e.doc.kind = "rule" THEN TRUE
    ELSE IF e.doc.kind = "spec"
    THEN ~(read_mode = "active" /\ e.doc.status # "active")
    ELSE IF e.doc.kind \in ArtifactKinds
    THEN LET hasTask == e.doc.path.parent # <<>> /\ e.doc.path.parent # <<"tasks">>
         IN \/ hasTask /\ e.doc.path.parent \in active_spec_ids(index)
            \/ read_mode # "active"
    ELSE FALSE

\* list.sort(key=...) / sorted(): insertion into a list ordered by key.
RECURSIVE InsertByKey(_, _)
InsertByKey(e, sorted) ==
    IF sorted = <<>> THEN <<e>>
    ELSE IF StrLess(e.key, Head(sorted).key) THEN <<e>> \o sorted
    ELSE <<Head(sorted)>> \o InsertByKey(e, Tail(sorted))

RECURSIVE SortByKey(_)
SortByKey(entries) ==
    IF entries = <<>> THEN <<>>
    ELSE InsertByKey(entries[Len(entries)], SortByKey(SubSeq(entries, 1, Len(entries) - 1)))

EligibleList(index, read_mode) ==
    SortByKey(SelectSeq(index, LAMBDA e : IsEligible(e, index, read_mode)))

aggregated_checksum(index, rs, ts, read_mode) ==
    LET eligible == EligibleList(index, read_mode) IN
    Sha256(Concat([i \in 1..Len(eligible) |->
        normalized_content_for_checksum(Raw(FileAt(rs, ts, eligible[i].doc.path)))]))

NoManifest ==
    [exists |-> FALSE, root_checksum |-> <<>>, documents |-> <<>>,
     active_set |-> <<>>, relations |-> <<>>]

\* build_manifest listing only the documents that root_checksum hashes.
BuildManifestEligibleOnly(index, rs, ts) ==
    LET sorted == EligibleList(index, "active")
        documents ==
            [i \in 1..Len(sorted) |->
                [id |-> sorted[i].key, kind |-> sorted[i].doc.kind,
                 path |-> sorted[i].doc.path, status |-> sorted[i].doc.status,
                 complexity |-> sorted[i].doc.complexity,
                 checksum |-> content_checksum(Raw(FileAt(rs, ts, sorted[i].doc.path)))]]
        active == SelectSeq(sorted, LAMBDA e : e.doc.status = "active")
    IN [exists |-> TRUE,
        root_checksum |-> aggregated_checksum(index, rs, ts, "active"),
        documents |-> documents,
        active_set |-> [i \in 1..Len(active) |-> active[i].key],
        relations |-> collect_relations(index)]

\* build_manifest, without the generated_at clock reading and the two
\* constant fields convention_version and generator.
build_manifest(index, rs, ts) ==
    LET sorted == SortByKey(index)
        documents ==
            [i \in 1..Len(sorted) |->
                [id |-> sorted[i].key, kind |-> sorted[i].doc.kind,
                 path |-> sorted[i].doc.path, status |-> sorted[i].doc.status,
                 complexity |-> sorted[i].doc.complexity,
                 checksum |-> content_checksum(Raw(FileAt(rs, ts, sorted[i].doc.path)))]]
        active == SelectSeq(sorted, LAMBDA e : e.doc.status = "active")
    IN [exists |-> TRUE,
        root_checksum |-> aggregated_checksum(index, rs, ts, "active"),
        documents |-> documents,
        active_set |-> [i \in 1..Len(active) |-> active[i].key],
        relations |-> collect_relations(index)]

----------------------------------------------------------------------------
\* The trees the commands are run on.

BodyX == <<"x">>
BodyY == <<"y">>

RuleR == MkFile(<<"R">>, "rule", None, None, <<>>, BodyX)
\* The id of RuleR again, with a reference to an id nothing has.
RuleR2 == MkFile(<<"R">>, "rule", None, None, << <<"X">> >>, BodyY)
RuleQ == MkFile(<<"Q">>, "rule", None, None, <<>>, BodyY)
\* Rules whose ids spell composite keys of task directory T.
RuleTspec == MkFile(<<"T", "-spec">>, "rule", None, None, <<>>, BodyX)
RuleTplan == MkFile(<<"T", "-plan">>, "rule", None, None, <<>>, BodyX)

SpecFile(dir, status, complexity, refs, body) ==
    MkFile(dir \o <<"-spec">>, "spec", status, complexity, refs, body)

ArtFile(dir, name, body) ==
    MkFile(dir \o <<Suffix(name)>>, Stem(name), None, None, <<>>, body)

NoArts == [n \in ArtNames |-> NoFile]
EmptyDir == [spec |-> NoFile, arts |-> NoArts]

Present(dir, name) == {NoFile, ArtFile(dir, name, BodyX)}

\* Trees of the validation runs: directory T in every tier and state of
\* completeness, a second task TsU after it, two rule files.
VRuleA == {NoFile, RuleR, RuleTspec, BadFile(BodyX)}
VRuleB == {NoFile, RuleR2, RuleTplan}
VRuleC == {NoFile, RuleR2}
RuleTree(fa, fb, fc) ==
    [n \in RuleNames |-> CASE n = "a.md" -> fa [] n = "b.md" -> fb [] OTHER -> fc]
VRules == {RuleTree(fa, fb, fc) : fa \in VRuleA, fb \in VRuleB, fc \in VRuleC}

VSpecT ==
    {NoFile, BadFile(BodyX),
     SpecFile(DirT, "active", "trivial", << <<"R">> >>, BodyX),
     SpecFile(DirT, "active", "normal", <<>>, BodyX),
     SpecFile(DirT, "active", "critical", <<>>, BodyX),
     SpecFile(DirT, "active", None, <<>>, BodyX),
     SpecFile(DirT, None, "normal", <<>>, BodyX),
     SpecFile(DirT, "draft", "trivial", << <<"X">> >>, BodyX)}

VArtsT ==
    {[n \in ArtNames |->
        CASE n = "context.md" -> c
          [] n = "plan.md" -> p
          [] n = "implementation.md" -> i
          [] n = "review.md" -> r
          [] n = "tests-review.md" -> t] :
     c \in Present(DirT, "context.md"),
     p \in Present(DirT, "plan.md") \cup {BadFile(BodyX)},
     i \in Present(DirT, "implementation.md"),
     r \in Present(DirT, "review.md"),
     t \in Present(DirT, "tests-review.md")}

VTaskT == {[spec |-> s, arts |-> a] : s \in VSpecT, a \in VArtsT}

VTaskTsU ==
    {EmptyDir} \cup
    {[spec |-> SpecFile(DirTsU, "active", "trivial", << <<"T">> >>, BodyX),
      arts |-> [NoArts EXCEPT !["implementation.md"] = i]] :
     i \in Present(DirTsU, "implementation.md")}

VTasks ==
    {[d \in TaskDirs |-> IF d = DirT THEN t ELSE IF d = DirTsU THEN u ELSE EmptyDir] :
     t \in VTaskT, u \in VTaskTsU}

VRulesPlain ==
    {r \in VRules : r["a.md"] \in {NoFile, RuleR}
                    /\ \A n \in RuleNames \ {"a.md"} : r[n] = NoFile}

\* Directory T with no artifact, the trivial set, the normal set, all five.
ArtsOf(dir, names) ==
    [n \in ArtNames |-> IF n \in names THEN ArtFile(dir, n, BodyX) ELSE NoFile]

VArtsPlain ==
    {ArtsOf(DirT, names) :
     names \in {{}, TRIVIAL_FILES \ {"spec.md"}, NORMAL_FILES \ {"spec.md"}, ArtNames}}

VTasksPlain == {t \in VTasks : t[DirT].arts \in VArtsPlain}

----------------------------------------------------------------------------
\* The commands of cli.py.  out is what the last command computed and how it
\* exited; manifestFile is manifests.yaml, stateFile is state/last_manifest.yaml.

Idle ==
    [cmd |-> "none", exit |-> 0, ok |-> TRUE, errors |-> <<>>, index |-> <<>>]

\* No adapter declared, nothing exported, no conversion applied.
NoDeclaration ==
    [configured |-> FALSE, exists |-> FALSE, output_dir |-> "", documents |-> <<>>]
NoOutput == [exists |-> FALSE, files |-> {}, context |-> <<>>]
YNone == [t |-> "none", n |-> 0]
NoSample == [content |-> <<>>, version |-> YNone]
NoDigest == [op |-> "none"]

XInit ==
    /\ adapter = NoDeclaration
    /\ exported = NoOutput
    /\ sample = NoSample
    /\ digest = NoDigest

\* Most files of a required set that the task directories of a tree lack.
MaxMissing == 3

FewMissing(ts) ==
    \A S \in {TRIVIAL_FILES, NORMAL_FILES, CRITICAL_FILES} :
        Cardinality(Reported(ts, S)) <= MaxMissing

\* Every tree of VRules x VTasks in which the rules or directory T are plain
\* and no more than MaxMissing required files are absent.
Init ==
    /\ rules \in VRules
    /\ tasks \in VTasks
    /\ FewMissing(tasks)
    /\ (rules \in VRulesPlain \/ tasks \in VTasksPlain)
    /\ out = Idle
    /\ manifestFile = NoManifest
    /\ stateFile = NoManifest
    /\ XInit

\* validate: run_validate, print every error, exit 1 if there is any.
ValidateCmd ==
    \E order \in OrdersOf(tasks) \cap HashOrders :
        LET r == run_validate(rules, tasks, order) IN
        /\ out' = [cmd |-> "validate", exit |-> IF r.errors # <<>> THEN 1 ELSE 0,
                   ok |-> r.ok, errors |-> r.errors, index |-> r.index]
        /\ UNCHANGED <<rules, tasks, manifestFile, stateFile, xvars>>

\* list: build_index, print the errors and exit 1 if there is any.
ListCmd ==
    LET bi == build_index(rules, tasks) IN
    /\ out' = [cmd |-> "list", exit |-> IF bi.errors # <<>> THEN 1 ELSE 0,
               ok |-> bi.errors = <<>>, errors |-> bi.errors, index |-> bi.index]
    /\ UNCHANGED <<rules, tasks, manifestFile, stateFile, xvars>>

\* build-manifest going on to write the manifest when run_validate found errors.
BuildManifestCmdUngated ==
    \E order \in OrdersOf(tasks) \cap HashOrders :
        LET r == run_validate(rules, tasks, order) IN
        /\ out' = [cmd |-> "build-manifest", exit |-> IF r.errors # <<>> THEN 1 ELSE 0,
                   ok |-> r.ok, errors |-> r.errors, index |-> r.index]
        /\ manifestFile' = build_manifest(r.index, rules, tasks)
        /\ stateFile' = build_manifest(r.index, rules, tasks)
        /\ UNCHANGED <<rules, tasks, xvars>>

\* build-manifest: run_validate; exit 1 on any error, else build the manifest
\* and write it to manifests.yaml and to the state file.
BuildManifestCmd ==
    \E order \in OrdersOf(tasks) \cap HashOrders :
        LET r == run_validate(rules, tasks, order) IN
        /\ out' = [cmd |-> "build-manifest", exit |-> IF r.errors # <<>> THEN 1 ELSE 0,
                   ok |-> r.ok, errors |-> r.errors, index |-> r.index]
        /\ IF r.errors # <<>>
           THEN UNCHANGED <<manifestFile, stateFile>>
           ELSE /\ manifestFile' = build_manifest(r.index, rules, tasks)
                /\ stateFile' = build_manifest(r.index, rules, tasks)
        /\ UNCHANGED <<rules, tasks, xvars>>

Next == ValidateCmd \/ ListCmd \/ BuildManifestCmd

Spec == Init /\ [][Next]_vars

----------------------------------------------------------------------------
\* Builds between edits of the tree.  The files that are edited, and what an
\* edit can leave at each: two rules in either file order, task T with an
\* active or historical spec, task T-specU with an active spec or none, task
\* TU-spec with a historical spec or none.

MFiles(path) ==
    IF path.top = "rules" THEN
        (IF path.file = "a.md" THEN {RuleR, RuleQ}
         ELSE IF path.file = "b.md" THEN {NoFile, RuleR, RuleQ}
         ELSE {NoFile})
    ELSE IF path.parent = DirT THEN
        (IF path.file = "spec.md"
         THEN {SpecFile(DirT, "active", "trivial", <<>>, BodyX),
               SpecFile(DirT, "historical", "trivial", <<>>, BodyX),
               SpecFile(DirT, "historical", "trivial", <<>>, BodyY)}
         ELSE IF path.file = "implementation.md"
         THEN {ArtFile(DirT, path.file, BodyX), ArtFile(DirT, path.file, BodyY)}
         ELSE {NoFile})
    ELSE IF path.parent = DirTsU THEN
        (IF path.file = "spec.md"
         THEN {NoFile, SpecFile(DirTsU, "active", "trivial", <<>>, BodyX)}
         ELSE IF path.file = "implementation.md"
         THEN {ArtFile(DirTsU, path.file, BodyX)}
         ELSE {NoFile})
    ELSE
        (IF path.file = "spec.md"
         THEN {NoFile, SpecFile(DirTUs, "historical", "trivial", <<>>, BodyX)}
         ELSE IF path.file = "implementation.md"
         THEN {ArtFile(DirTUs, path.file, BodyX), ArtFile(DirTUs, path.file, BodyY)}
         ELSE {NoFile})

Paths ==
    {RulePath(n) : n \in RuleNames}
    \cup {TaskPath(d, n) : d \in TaskDirs, n \in Range(FileOrder)}

MRules ==
    {RuleTree(fa, fb, NoFile) :
     fa \in MFiles(RulePath("a.md")), fb \in MFiles(RulePath("b.md"))}

MDir(dir) ==
    {[spec |-> s, arts |-> [NoArts EXCEPT !["implementation.md"] = i]] :
     s \in MFiles(TaskPath(dir, "spec.md")),
     i \in MFiles(TaskPath(dir, "implementation.md"))}

MTasks ==
    {[d \in TaskDirs |-> CASE d = DirT -> t [] d = DirTsU -> u [] OTHER -> v] :
     t \in MDir(DirT), u \in MDir(DirTsU), v \in MDir(DirTUs)}

InitM ==
    /\ rules \in MRules
    /\ tasks \in MTasks
    /\ out = Idle
    /\ manifestFile = NoManifest
    /\ stateFile = NoManifest
    /\ XInit

\* The tree with file f at path (NoFile: the path removed).
PutRules(rs, path, f) ==
    IF path.top = "rules" THEN [rs EXCEPT ![path.file] = f] ELSE rs

PutTasks(ts, path, f) ==
    IF path.top = "rules" THEN ts
    ELSE IF path.file = "spec.md" THEN [ts EXCEPT ![path.parent].spec = f]
    ELSE [ts EXCEPT ![path.parent].arts[path.file] = f]

\* Somebody writes a file of the tree between two commands.
EditFile ==
    \E path \in Paths : \E f \in MFiles(path) \ {NoFile} :
        /\ f # FileAt(rules, tasks, path)
        /\ rules' = PutRules(rules, path, f)
        /\ tasks' = PutTasks(tasks, path, f)
        /\ out' = Idle
        /\ UNCHANGED <<manifestFile, stateFile, xvars>>

\* Somebody removes a file of the tree between two commands.
DeleteFile ==
    \E path \in Paths :
        /\ NoFile \in MFiles(path)
        /\ FileAt(rules, tasks, path).exists
        /\ rules' = PutRules(rules, path, NoFile)
        /\ tasks' = PutTasks(tasks, path, NoFile)
        /\ out' = Idle
        /\ UNCHANGED <<manifestFile, stateFile, xvars>>

NextM == BuildManifestCmd \/ EditFile \/ DeleteFile

SpecM == InitM /\ [][NextM]_vars

----------------------------------------------------------------------------
\* diff (cli.py): the current index against the manifest stored in the state
\* file.

\* sorted() of a set of ids, given as the list of entries that carry them.
SortedKeys(entries) ==
    LET sorted == SortByKey(entries) IN [i \in 1..Len(sorted) |-> sorted[i].key]

\* last_checksums.get(doc_id)
StoredChecksum(last, id) ==
    LET i == CHOOSE j \in 1..Len(last.documents) : last.documents[j].id = id
    IN last.documents[i].checksum

\* The report of diff with no document ever flagged as changed.
DiffReportNoChanged(index, rs, ts, last) ==
    LET last_ids == {last.documents[i].id : i \in 1..Len(last.documents)} IN
    [added |-> SortedKeys(SelectSeq(index, LAMBDA e : e.key \notin last_ids)),
     removed |-> SortedKeys(SelectSeq([i \in 1..Len(last.documents) |->
                                          [key |-> last.documents[i].id]],
                                      LAMBDA e : e.key \notin Keys(index))),
     changed |-> <<>>]

\* added, removed: the two set differences of the ids, sorted; changed: the
\* ids in both whose content checksum now differs from the stored one.
DiffReport(index, rs, ts, last) ==
    LET last_ids == {last.documents[i].id : i \in 1..Len(last.documents)} IN
    [added |-> SortedKeys(SelectSeq(index, LAMBDA e : e.key \notin last_ids)),
     removed |-> SortedKeys(SelectSeq([i \in 1..Len(last.documents) |->
                                          [key |-> last.documents[i].id]],
                                      LAMBDA e : e.key \notin Keys(index))),
     changed |-> SortedKeys(SelectSeq(index, LAMBDA e :
                    /\ e.key \in last_ids
                    /\ StoredChecksum(last, e.key)
                         # content_checksum(Raw(FileAt(rs, ts, e.doc.path)))))]

NoReport == [added |-> <<>>, removed |-> <<>>, changed |-> <<>>]

\* diff: exit 1 on indexing errors; exit 0 with a notice when the state file
\* is missing; else print the report.  Nothing is written.
DiffCmd ==
    LET bi == build_index(rules, tasks)
        failed == bi.errors # <<>>
    IN
    /\ out' = [cmd |-> "diff", exit |-> IF failed THEN 1 ELSE 0,
               ok |-> ~failed, errors |-> bi.errors, index |-> bi.index,
               compared |-> ~failed /\ stateFile.exists,
               report |-> IF ~failed /\ stateFile.exists
                          THEN DiffReport(bi.index, rules, tasks, stateFile)
                          ELSE NoReport]
    /\ UNCHANGED <<rules, tasks, manifestFile, stateFile, xvars>>

----------------------------------------------------------------------------
\* Builds and diffs between edits of a tree made to tell documents apart:
\* two rules whose contents can trade a run of bytes, one task whose
\* directory is T or TU-spec with the same two files in it and whose spec is
\* active or historical, and task T-specU with an implementation.md that is
\* edited.

\* Rule Q ending with the bytes rule R can start with, and rule R starting
\* with them: QLong followed by RuleR spells what RuleQ followed by RLong spells.
QLong == MkFile(<<"Q">>, "rule", None, None, <<>>, BodyY \o Frontmatter(RuleR) \o <<"z">>)
RLong == MkFile(<<"R">>, "rule", None, None, <<>>, <<"z">> \o Raw(RuleR))

KFiles(path) ==
    IF path.top = "rules" THEN
        (IF path.file = "a.md" THEN {RuleQ, QLong}
         ELSE IF path.file = "b.md" THEN {RuleR, RLong}
         ELSE {NoFile})
    ELSE IF path.parent = DirTsU THEN
        (IF path.file = "spec.md"
         THEN {NoFile, SpecFile(DirTsU, "active", "trivial", <<>>, BodyX)}
         ELSE IF path.file = "implementation.md"
         THEN {ArtFile(DirTsU, path.file, BodyX), ArtFile(DirTsU, path.file, BodyY)}
         ELSE {NoFile})
    ELSE
        (IF path.file = "spec.md"
         THEN {NoFile, SpecFile(DirT, "active", "trivial", <<>>, BodyX)}
              \cup (IF path.parent = DirT
                    THEN {SpecFile(DirT, "historical", "trivial", <<>>, BodyX)}
                    ELSE {})
         ELSE IF path.file = "implementation.md"
         THEN {ArtFile(DirT, path.file, BodyX)}
         ELSE {NoFile})

KRules ==
    {RuleTree(fa, fb, NoFile) :
     fa \in KFiles(RulePath("a.md")), fb \in KFiles(RulePath("b.md"))}

KDir(dir) ==
    {[spec |-> s, arts |-> [NoArts EXCEPT !["implementation.md"] = i]] :
     s \in KFiles(TaskPath(dir, "spec.md")),
     i \in KFiles(TaskPath(dir, "implementation.md"))}

KTasks ==
    {[d \in TaskDirs |-> CASE d = DirT -> t [] d = DirTsU -> u [] OTHER -> v] :
     t \in KDir(DirT), u \in KDir(DirTsU), v \in KDir(DirTUs)}

InitK ==
    /\ rules \in KRules
    /\ tasks \in KTasks
    /\ out = Idle
    /\ manifestFile = NoManifest
    /\ stateFile = NoManifest
    /\ XInit

EditFileK ==
    \E path \in Paths : \E f \in KFiles(path) \ {NoFile} :
        /\ f # FileAt(rules, tasks, path)
        /\ rules' = PutRules(rules, path, f)
        /\ tasks' = PutTasks(tasks, path, f)
        /\ out' = Idle
        /\ UNCHANGED <<manifestFile, stateFile, xvars>>

DeleteFileK ==
    \E path \in Paths :
        /\ NoFile \in KFiles(path)
        /\ FileAt(rules, tasks, path).exists
        /\ rules' = PutRules(rules, path, NoFile)
        /\ tasks' = PutTasks(tasks, path, NoFile)
        /\ out' = Idle
        /\ UNCHANGED <<manifestFile, stateFile, xvars>>

NextK == BuildManifestCmd \/ DiffCmd \/ EditFileK \/ DeleteFileK

SpecK == InitK /\ [][NextK]_vars

----------------------------------------------------------------------------
\* export (cli.py, adapters/base.py).  adapter.configured: the adapter's name
\* is in config.adapters; adapter.exists, output_dir, documents: the content
\* of adapters/<name>/context.json.  A declared entry has an id (<<>> when it
\* has none) and a source path (NoSource when it has none); its target is
\* its source.  exported.files maps each target under the output directory to
\* the content copied there; exported.context is the context.json written.

NoSource == [top |-> "none", parent |-> <<>>, file |-> "none"]

Entry(id, source) == [id |-> id, source |-> source]

\* (root / source).resolve().is_file()
IsFile(rs, ts, source) == source # NoSource /\ FileAt(rs, ts, source).exists

\* by_path.get(src_path): the indexed document read from that path.
HasPath(index, path) == \E i \in 1..Len(index) : index[i].doc.path = path

ByPath(index, path) ==
    index[CHOOSE i \in 1..Len(index) : index[i].doc.path = path].doc

\* The entry of the payload for one declared entry whose source exists.
PayloadEntry(entry, index, rs, ts) ==
    LET byId == entry.id # <<>> /\ HasKey(index, entry.id)
        found == byId \/ HasPath(index, entry.source)
        indexed == IF byId THEN Lookup(index, entry.id)
                   ELSE IF found THEN ByPath(index, entry.source)
                   ELSE NoDoc
    IN [id |-> entry.id, source |-> entry.source, target |-> entry.source,
        enriched |-> found,
        status |-> indexed.status,
        complexity |-> indexed.complexity,
        checksum |-> IF found THEN content_checksum(Raw(FileAt(rs, ts, indexed.path)))
                     ELSE <<>>]

\* build_payload raising only when the first declared entry is bad.
BuildPayloadFirstEntryOnly(declared, index, rs, ts) ==
    IF declared # <<>> /\ Head(declared).source = NoSource
    THEN [raised |-> "ValueError", documents |-> <<>>]
    ELSE IF declared # <<>> /\ ~IsFile(rs, ts, Head(declared).source)
    THEN [raised |-> "FileNotFoundError", documents |-> <<>>]
    ELSE LET ok == SelectSeq(declared, LAMBDA e : IsFile(rs, ts, e.source)) IN
         [raised |-> "none",
          documents |-> [i \in 1..Len(ok) |-> PayloadEntry(ok[i], index, rs, ts)]]

\* build_payload: the loop over the declared entries raises at the first
\* entry with no source (ValueError) or whose source is not a file
\* (FileNotFoundError); nothing is returned then.
build_payload(declared, index, rs, ts) ==
    LET bad == {i \in 1..Len(declared) : ~IsFile(rs, ts, declared[i].source)} IN
    IF bad # {}
    THEN LET first == CHOOSE i \in bad : \A j \in bad : i <= j IN
         [raised |-> IF declared[first].source = NoSource
                     THEN "ValueError" ELSE "FileNotFoundError",
          documents |-> <<>>]
    ELSE [raised |-> "none",
          documents |-> [i \in 1..Len(declared) |->
                            PayloadEntry(declared[i], index, rs, ts)]]

\* _copy_documents: shutil.copy2 of each source to output_dir/target, in order.
RECURSIVE copy_documents(_, _, _, _)
copy_documents(files, documents, rs, ts) ==
    IF documents = <<>> THEN files
    ELSE LET d == Head(documents)
             copied == {f \in files : f.target # d.target}
                       \cup {[target |-> d.target,
                              content |-> Raw(FileAt(rs, ts, d.source))]}
         IN copy_documents(copied, Tail(documents), rs, ts)

\* run_export: load_adapter_spec, build_payload, mkdir of the output
\* directory, _copy_documents, then context.json.  An exception leaves at
\* the statement that raised it.
run_export(decl, index, rs, ts, output) ==
    IF ~decl.exists THEN [raised |-> "FileNotFoundError", output |-> output]
    ELSE IF decl.output_dir = "" THEN [raised |-> "ValueError", output |-> output]
    ELSE LET payload == build_payload(decl.documents, index, rs, ts) IN
         IF payload.raised # "none" THEN [raised |-> payload.raised, output |-> output]
         ELSE [raised |-> "none",
               output |-> [exists |-> TRUE,
                           files |-> copy_documents(output.files, payload.documents, rs, ts),
                           context |-> payload.documents]]

\* export <adapter>: exit 1 if the adapter is not configured; exit 1 on any
\* validation error; run_export, exit 1 if it raised.
ExportCmd ==
    \E order \in OrdersOf(tasks) \cap HashOrders :
        LET r == run_validate(rules, tasks, order)
            x == run_export(adapter, r.index, rules, tasks, exported)
        IN
        IF ~adapter.configured
        THEN /\ out' = [cmd |-> "export", exit |-> 1, ok |-> FALSE, errors |-> <<>>,
                        index |-> <<>>, raised |-> "none"]
             /\ UNCHANGED <<rules, tasks, manifestFile, stateFile, adapter, exported,
                            sample, digest>>
        ELSE IF r.errors # <<>>
        THEN /\ out' = [cmd |-> "export", exit |-> 1, ok |-> FALSE, errors |-> r.errors,
                        index |-> r.index, raised |-> "none"]
             /\ UNCHANGED <<rules, tasks, manifestFile, stateFile, adapter, exported,
                            sample, digest>>
        ELSE /\ out' = [cmd |-> "export", exit |-> IF x.raised # "none" THEN 1 ELSE 0,
                        ok |-> x.raised = "none", errors |-> <<>>, index |-> r.index,
                        raised |-> x.raised]
             /\ exported' = x.output
             /\ UNCHANGED <<rules, tasks, manifestFile, stateFile, adapter, sample, digest>>

\* The declarations tried: up to MaxDeclared entries, each naming rule id R or
\* no id, with source rules/a.md, rules/b.md, tasks/T/implementation.md or none.
MaxDeclared == 2

XEntries ==
    {Entry(<<"R">>, RulePath("a.md")),
     Entry(<<"R">>, RulePath("b.md")),
     Entry(<<>>, TaskPath(DirT, "implementation.md")),
     Entry(<<>>, NoSource)}

XDeclared == UNION {[1..k -> XEntries] : k \in 0..MaxDeclared}

XAdapters ==
    {NoDeclaration,
     [configured |-> TRUE, exists |-> FALSE, output_dir |-> "", documents |-> <<>>],
     [configured |-> TRUE, exists |-> TRUE, output_dir |-> "", documents |-> <<>>]}
    \cup {[configured |-> TRUE, exists |-> TRUE, output_dir |-> "out", documents |-> d] :
          d \in XDeclared}

\* The trees exported from: rule R in a.md; b.md absent, rule Q, or rule R
\* again; task T with implementation.md and with or without its spec.md.
XRules == {RuleTree(RuleR, fb, NoFile) : fb \in {NoFile, RuleQ, RuleR2}}

XTasks ==
    {[d \in TaskDirs |->
        IF d = DirT
        THEN [spec |-> sp, arts |-> ArtsOf(DirT, {"implementation.md"})]
        ELSE EmptyDir] :
     sp \in {NoFile, SpecFile(DirT, "active", "trivial", <<>>, BodyX)}}

InitX ==
    /\ rules \in XRules
    /\ tasks \in XTasks
    /\ out = Idle
    /\ manifestFile = NoManifest
    /\ stateFile = NoManifest
    /\ adapter \in XAdapters
    /\ exported = NoOutput
    /\ sample = NoSample
    /\ digest = NoDigest

\* Somebody rewrites adapters/<name>/context.json or the adapters list of
\* the configuration between two commands.
EditDeclaration ==
    /\ adapter' \in XAdapters \ {adapter}
    /\ out' = Idle
    /\ UNCHANGED <<rules, tasks, manifestFile, stateFile, exported, sample, digest>>

\* Somebody adds, rewrites or removes rules/b.md between two commands.
EditRuleB ==
    /\ rules' \in XRules \ {rules}
    /\ out' = Idle
    /\ UNCHANGED <<tasks, manifestFile, stateFile, adapter, exported, sample, digest>>

NextX == ExportCmd \/ EditDeclaration \/ EditRuleB

SpecX == InitX /\ [][NextX]_vars

----------------------------------------------------------------------------
\* The pure conversions of document.py and manifest.py applied to one input:
\* sample is the input, digest what the conversion returned.

\* A frontmatter value of `version` as yaml.safe_load returns it: absent, an
\* int, a str spelling an int, any other str, a list, or the float .inf.
YInt(n) == [t |-> "int", n |-> n]
YNumStr(n) == [t |-> "numstr", n |-> n]
YText == [t |-> "str", n |-> 0]
YList == [t |-> "list", n |-> 0]
YInf == [t |-> "inf", n |-> 0]

\* normalize_version without the int() conversion: every value gives 1.
NormalizeVersionAlwaysOne(v) == [raised |-> FALSE, value |-> 1]

\* normalize_version: None gives 1; int(v) is returned as it is; TypeError and
\* ValueError give 1; int(float('inf')) raises OverflowError, which is not caught.
normalize_version(v) ==
    IF v.t = "none" THEN [raised |-> FALSE, value |-> 1]
    ELSE IF v.t \in {"int", "numstr"} THEN [raised |-> FALSE, value |-> v.n]
    ELSE IF v.t = "inf" THEN [raised |-> TRUE, value |-> 0]
    ELSE [raised |-> FALSE, value |-> 1]

\* Largest magnitude of a version value, longest content tried.
MaxVersion == 2
MaxLen == 4

VersionValues ==
    {YNone, YText, YList, YInf}
    \cup {YInt(n) : n \in (0 - MaxVersion)..MaxVersion}
    \cup {YNumStr(n) : n \in (0 - MaxVersion)..MaxVersion}

\* The contents tried: a letter, the two line-end characters and one kind of
\* blank, a space or a form feed.
Blanks == {" ", "\f"}

ContentsWith(b) == UNION {[1..k -> {"x", "\n", "\r", b}] : k \in 0..MaxLen}

Contents == UNION {ContentsWith(b) : b \in Blanks}

\* A content read as text: each line ending (\r\n, a lone \r, a lone \n) is
\* one "EOL" whatever its style.
RECURSIVE TextOf(_)
TextOf(c) ==
    IF c = <<>> THEN <<>>
    ELSE IF Len(c) >= 2 /\ c[1] = "\r" /\ c[2] = "\n"
    THEN <<"EOL">> \o TextOf(SubSeq(c, 3, Len(c)))
    ELSE IF c[1] \in {"\r", "\n"} THEN <<"EOL">> \o TextOf(Tail(c))
    ELSE <<c[1]>> \o TextOf(Tail(c))

\* The text without its leading and trailing blank characters and line ends.
RECURSIVE DropBlank(_)
DropBlank(t) ==
    IF t # <<>> /\ Head(t) \in Whitespace \cup {"EOL"} THEN DropBlank(Tail(t)) ELSE t

InnerText(c) == Reverse(DropBlank(Reverse(DropBlank(TextOf(c)))))

\* c and d differ only in line-ending style or in leading/trailing whitespace.
SameText(c, d) == InnerText(c) = InnerText(d)

InitN ==
    /\ rules = [n \in RuleNames |-> NoFile]
    /\ tasks = [d \in TaskDirs |-> EmptyDir]
    /\ out = Idle
    /\ manifestFile = NoManifest
    /\ stateFile = NoManifest
    /\ adapter = NoDeclaration
    /\ exported = NoOutput
    /\ sample \in {[content |-> c, version |-> YNone] : c \in Contents}
                  \cup {[content |-> <<>>, version |-> v] : v \in VersionValues}
    /\ digest = NoDigest

\* content_checksum and normalized_content_for_checksum on the sample and
\* on a content that spells the same text.
NormalizeContent ==
    \E b \in Blanks :
        /\ digest = NoDigest
        /\ Range(sample.content) \subseteq {"x", "\n", "\r", b}
        /\ \E d \in ContentsWith(b) :
              /\ SameText(sample.content, d)
              /\ digest' = [op |-> "checksum", other |-> d,
                            sum |-> content_checksum(sample.content),
                            sumOther |-> content_checksum(d),
                            bytes |-> normalized_content_for_checksum(sample.content),
                            bytesOther |-> normalized_content_for_checksum(d),
                            again |-> normalized_content_for_checksum(
                                          normalized_content_for_checksum(sample.content))]
        /\ UNCHANGED <<rules, tasks, out, manifestFile, stateFile, adapter, exported, sample>>

\* parse_document's call of normalize_version on the sample's version value.
NormalizeVersion ==
    /\ digest = NoDigest
    /\ digest' = [op |-> "version", result |-> normalize_version(sample.version)]
    /\ UNCHANGED <<rules, tasks, out, manifestFile, stateFile, adapter, exported, sample>>

NextN == NormalizeContent \/ NormalizeVersion

SpecN == InitN /\ [][NextN]_vars

----------------------------------------------------------------------------
\* What the claims below speak about.

IndexMessages == {"parse", "duplicate id", "duplicate key"}
RequiredMessages == {"required file missing"}
ReferenceMessages == {"reference to unknown id"}
\* Every other message is one validate_document_schema raises.
Phase(e) ==
    IF e.msg \in IndexMessages THEN 0
    ELSE IF e.msg \in RequiredMessages THEN 2
    ELSE IF e.msg \in ReferenceMessages THEN 3
    ELSE 1

Validated == out.cmd \in {"validate", "build-manifest"}

\* The files the discovery rules of the indexer name, in discovery order,
\* each with the key its document gets.
DiscoveredInDir(ts, dir) ==
    IF ~ts[dir].spec.exists THEN <<>>
    ELSE <<[path |-> TaskPath(dir, "spec.md"), file |-> ts[dir].spec,
            key |-> dir \o <<"-spec">>]>>
         \o [i \in 1..Len(SelectSeq(ArtOrder, LAMBDA n : ts[dir].arts[n].exists)) |->
               LET n == SelectSeq(ArtOrder, LAMBDA m : ts[dir].arts[m].exists)[i] IN
               [path |-> TaskPath(dir, n), file |-> ts[dir].arts[n],
                key |-> dir \o <<Suffix(n)>>]]

Discovered(rs, ts) ==
    [i \in 1..Len(collect_rules(rs)) |->
        [path |-> RulePath(collect_rules(rs)[i]), file |-> rs[collect_rules(rs)[i]],
         key |-> rs[collect_rules(rs)[i]].id]]
    \o Concat([i \in 1..Len(DirOrder) |-> DiscoveredInDir(ts, DirOrder[i])])

\* Position of a path in discovery order (0: not discovered).
Rank(rs, ts, path) ==
    LET d == Discovered(rs, ts) IN
    IF \E i \in 1..Len(d) : d[i].path = path
    THEN CHOOSE i \in 1..Len(d) : d[i].path = path
    ELSE 0

Count(s, P(_)) == Cardinality({i \in 1..Len(s) : P(s[i])})

\* C1: when build_index reports errors, run_validate returns ok = false, the
\* indexing errors and nothing else, in discovery order, and the partial index.
C1_ShortCircuit ==
    LET bi == build_index(rules, tasks) IN
    (Validated /\ bi.errors # <<>>) =>
        /\ out.ok = FALSE
        /\ out.errors = bi.errors
        /\ out.index = bi.index
        /\ \A i \in 1..Len(out.errors) : Phase(out.errors[i]) = 0
        /\ \A i, j \in 1..Len(out.errors) :
              i < j => Rank(rules, tasks, out.errors[i].path)
                       < Rank(rules, tasks, out.errors[j].path)

\* An indexing error next to an indexed document that violates its schema.
C1_Witness ==
    /\ out.cmd = "validate"
    /\ build_index(rules, tasks).errors # <<>>
    /\ SchemaLoop(out.index) # <<>>
    /\ validate_references(out.index) # <<>>

\* The iteration orders that follow the order of FileOrder.
ListedOrder ==
    [trivial |-> SelectSeq(FileOrder, LAMBDA n : n \in TRIVIAL_FILES),
     normal |-> SelectSeq(FileOrder, LAMBDA n : n \in NORMAL_FILES),
     critical |-> SelectSeq(FileOrder, LAMBDA n : n \in CRITICAL_FILES)]

\* Position of a directory in task-directory order (0: not a task directory).
DirRank(ts, dir) ==
    LET dirs == collect_task_dirs(ts) IN
    IF \E i \in 1..Len(dirs) : dirs[i] = dir
    THEN CHOOSE i \in 1..Len(dirs) : dirs[i] = dir
    ELSE 0

\* C2: on a clean index the three checks all run and the result is their
\* error lists one after the other: the schema errors in index order, then
\* the required-file errors, directory after directory in task-directory
\* order, then the reference errors in document order; ok exactly when that
\* list is empty.
C2_AllChecks ==
    LET bi == build_index(rules, tasks)
        schema == SchemaLoop(bi.index)
        required == validate_required_files(tasks, bi.index, ListedOrder)
        refs == validate_references(bi.index)
        from == Len(schema) + 1
        to == Len(schema) + Len(required)
    IN (Validated /\ bi.errors = <<>>) =>
        /\ Len(out.errors) = Len(schema) + Len(required) + Len(refs)
        /\ SubSeq(out.errors, 1, Len(schema)) = schema
        /\ Range(SubSeq(out.errors, from, to)) = Range(required)
        /\ \A i, j \in from..to :
              i < j => /\ DirRank(tasks, out.errors[i].path.parent) > 0
                       /\ DirRank(tasks, out.errors[i].path.parent)
                             <= DirRank(tasks, out.errors[j].path.parent)
        /\ SubSeq(out.errors, to + 1, Len(out.errors)) = refs
        /\ \A i, j \in 1..Len(out.errors) :
              i < j => Phase(out.errors[i]) <= Phase(out.errors[j])
        /\ out.ok = (out.errors = <<>>)
        /\ out.index = bi.index

\* A clean index whose validation reports an error of each of the three
\* checks, the required-file check naming plan.md after tests-review.md.
C2_Witness ==
    /\ out.cmd = "validate"
    /\ build_index(rules, tasks).errors = <<>>
    /\ \A ph \in {1, 2, 3} : \E i \in 1..Len(out.errors) : Phase(out.errors[i]) = ph
    /\ \E i, j \in 1..Len(out.errors) :
          /\ i < j
          /\ out.errors[i].path = TaskPath(DirT, "tests-review.md")
          /\ out.errors[j].path = TaskPath(DirT, "plan.md")

\* The directories whose own spec.md is the document indexed under <dir>-spec.
OwnSpecIndexed(index, dir) ==
    Lookup(index, dir \o <<"-spec">>).path = TaskPath(dir, "spec.md")

\* C3: a duplicate key does not stop validation: on a tree whose only
\* indexing errors are duplicate keys, the duplicate-key errors and every
\* schema, required-file and reference error of the other documents are all
\* in the list run_validate returns.
C3_DuplicateCollected ==
    LET bi == build_index(rules, tasks)
        dups == {e \in Range(bi.errors) : e.msg \in {"duplicate id", "duplicate key"}}
    IN (Validated /\ dups = Range(bi.errors) /\ dups # {}) =>
        /\ dups \subseteq Range(out.errors)
        /\ Range(SchemaLoop(bi.index)) \subseteq Range(out.errors)
        /\ Range(validate_references(bi.index)) \subseteq Range(out.errors)
        /\ \A dir \in TaskDirs :
              OwnSpecIndexed(bi.index, dir) =>
                 Range(RequiredErrorsOf(tasks, bi.index, dir, ListedOrder))
                    \subseteq Range(out.errors)

\* C4: build_index reports one error per file that fails to parse and indexes
\* every other discovered file whose key no earlier file has taken.
C4_FailSoft ==
    LET d == Discovered(rules, tasks) IN
    out.cmd = "list" =>
        /\ \A i \in 1..Len(d) :
              ~ParseOk(d[i].file) =>
                 Count(out.errors, LAMBDA e : e.path = d[i].path) = 1
        /\ Count(out.errors, LAMBDA e : e.msg = "parse")
              = Count(d, LAMBDA x : ~ParseOk(x.file))
        /\ \A i \in 1..Len(d) :
              (/\ ParseOk(d[i].file)
               /\ \A j \in 1..(i - 1) : ~(ParseOk(d[j].file) /\ d[j].key = d[i].key))
              => /\ HasKey(out.index, d[i].key)
                 /\ Lookup(out.index, d[i].key).path = d[i].path

\* C5: index keys are unique; a document whose key an earlier document has
\* leaves the first one in the index and gets exactly one duplicate error
\* naming its path and the key.
C5_DuplicateKeys ==
    LET d == Discovered(rules, tasks) IN
    out.cmd = "list" =>
        /\ \A i, j \in 1..Len(out.index) : i # j => out.index[i].key # out.index[j].key
        /\ \A i \in 1..Len(d) :
              LET same == {j \in 1..i : ParseOk(d[j].file) /\ d[j].key = d[i].key}
                  first == CHOOSE j \in same : \A k \in same : j <= k
              IN (ParseOk(d[i].file) /\ first # i) =>
                    /\ Lookup(out.index, d[i].key).path = d[first].path
                    /\ Count(out.errors,
                             LAMBDA e : /\ e.path = d[i].path
                                        /\ e.arg = d[i].key
                                        /\ e.msg \in {"duplicate id", "duplicate key"}) = 1
                    /\ Count(out.errors, LAMBDA e : e.path = d[i].path) = 1

BadStatus(doc) == doc.kind = "spec" /\ doc.status \notin STATUS_VALUES

NamesSchemaError(errors, doc) ==
    \E i \in 1..Len(errors) : Phase(errors[i]) = 1 /\ errors[i].path = doc.path

\* C6 as claimed: every indexed spec whose status is absent or outside the
\* enum makes run_validate return ok = false and a schema error naming it.
C6_SpecStatus ==
    Validated =>
        \A i \in 1..Len(out.index) :
            BadStatus(out.index[i].doc) =>
                out.ok = FALSE /\ NamesSchemaError(out.errors, out.index[i].doc)

\* C6 amended: such a spec makes run_validate return ok = false; the schema
\* error naming it is in the list whenever build_index reported no error.
C6_SpecStatusClean ==
    Validated =>
        \A i \in 1..Len(out.index) :
            BadStatus(out.index[i].doc) =>
                /\ out.ok = FALSE
                /\ build_index(rules, tasks).errors = <<>>
                      => NamesSchemaError(out.errors, out.index[i].doc)

\* A clean index holding a spec whose status is outside the enum.
C6_Witness ==
    /\ out.cmd = "validate"
    /\ build_index(rules, tasks).errors = <<>>
    /\ \E i \in 1..Len(out.index) :
          out.index[i].doc.kind = "spec" /\ out.index[i].doc.status = "draft"
    /\ out.ok = FALSE

\* The required sets as the specification tabulates them.
TierFiles(complexity) ==
    CASE complexity = "trivial" -> {"spec.md", "implementation.md"}
      [] complexity = "critical" ->
            {"spec.md", "context.md", "plan.md", "implementation.md", "review.md",
             "tests-review.md"}
      [] complexity \in {"normal", None} ->
            {"spec.md", "plan.md", "implementation.md", "tests-review.md"}

\* C7: for each task whose spec is indexed, one required-file error per file
\* of its tier's set that is not on disk, and no other required-file error.
C7_RequiredFiles ==
    (Validated /\ build_index(rules, tasks).errors = <<>>) =>
        /\ \A dir \in TaskDirs : \A n \in Range(FileOrder) :
              Count(out.errors, LAMBDA e : /\ Phase(e) = 2
                                           /\ e.path = TaskPath(dir, n))
              = IF /\ OwnSpecIndexed(out.index, dir)
                   /\ n \in TierFiles(Lookup(out.index, dir \o <<"-spec">>).complexity)
                   /\ ~OnDisk(tasks, dir, n)
                THEN 1 ELSE 0
        /\ \A i \in 1..Len(out.errors) :
              Phase(out.errors[i]) = 2 =>
                 /\ out.errors[i].path.parent \in TaskDirs
                 /\ out.errors[i].path.file \in Range(FileOrder)

\* A critical task with everything but review.md, and the error for it.
C7_Witness ==
    /\ out.cmd = "validate"
    /\ build_index(rules, tasks).errors = <<>>
    /\ tasks[DirT].spec.complexity = "critical"
    /\ \A n \in ArtNames : tasks[DirT].arts[n].exists = (n # "review.md")
    /\ \E i \in 1..Len(out.errors) :
          Phase(out.errors[i]) = 2 /\ out.errors[i].path = TaskPath(DirT, "review.md")

Unresolved(r, index) == r \notin Keys(index) /\ (r \o <<"-spec">>) \notin Keys(index)

\* C8: one reference error per entry r of a references list for which neither
\* r nor r-spec is an index key, none for the other entries.
C8_References ==
    (Validated /\ build_index(rules, tasks).errors = <<>>) =>
        /\ \A i \in 1..Len(out.index) :
              LET doc == out.index[i].doc IN
              \A r \in Range(doc.refs) :
                 Count(out.errors, LAMBDA e : /\ Phase(e) = 3
                                              /\ e.path = doc.path
                                              /\ e.arg = r)
                 = IF Unresolved(r, out.index)
                   THEN Count(doc.refs, LAMBDA x : x = r) ELSE 0
        /\ Count(out.errors, LAMBDA e : Phase(e) = 3)
           = Cardinality(UNION {{<<i, k>> : k \in {n \in 1..Len(out.index[i].doc.refs) :
                                   Unresolved(out.index[i].doc.refs[n], out.index)}} :
                                i \in 1..Len(out.index)})

\* One reference that resolves only through the -spec fallback, one that
\* does not resolve.
C8_Witness ==
    /\ out.cmd = "validate"
    /\ build_index(rules, tasks).errors = <<>>
    /\ \E i \in 1..Len(out.index) : \E r \in Range(out.index[i].doc.refs) :
          r \notin Keys(out.index) /\ ~Unresolved(r, out.index)
    /\ \E i \in 1..Len(out.errors) : Phase(out.errors[i]) = 3

\* Eligibility in mode "active" as the specification states it, on an index
\* entry and the tree: a rule; a spec with status active; an artifact whose
\* own task directory has a spec.md with status active.
PolicyEligible(e, ts) ==
    \/ e.doc.kind = "rule"
    \/ e.doc.kind = "spec" /\ e.doc.status = "active"
    \/ /\ e.doc.kind \in ArtifactKinds
       /\ e.doc.path.top = "tasks"
       /\ ts[e.doc.path.parent].spec.exists
       /\ ts[e.doc.path.parent].spec.status = "active"

PolicyChecksum(index, rs, ts) ==
    LET eligible == SortByKey(SelectSeq(index, LAMBDA e : PolicyEligible(e, ts))) IN
    Sha256(Concat([i \in 1..Len(eligible) |->
        normalized_content_for_checksum(Raw(FileAt(rs, ts, eligible[i].doc.path)))]))

\* C9: the documents hashed into root_checksum are exactly the rules, the
\* active specs and the artifacts of the task directories whose spec is
\* active, whatever the directory is called.
C9_Eligibility ==
    (out.cmd = "build-manifest" /\ out.exit = 0) =>
        manifestFile.root_checksum = PolicyChecksum(out.index, rules, tasks)

\* The eligible part of a manifest, read from its documents list: the id and
\* the content checksum of each eligible entry.
ManifestEligible(m) ==
    LET docs == Range(m.documents)
        activeDirs == {d.path.parent : d \in {x \in docs : /\ x.path.top = "tasks"
                                                           /\ x.path.file = "spec.md"
                                                           /\ x.kind = "spec"
                                                           /\ x.status = "active"}}
    IN {<<d.id, d.checksum>> :
          d \in {x \in docs :
                   \/ x.kind = "rule"
                   \/ x.kind = "spec" /\ x.status = "active"
                   \/ /\ x.kind \in ArtifactKinds
                      /\ x.path.top = "tasks"
                      /\ x.path.parent \in activeDirs}}

\* C10: a build whose eligible keys and contents are those of the manifest
\* it replaces writes the same root_checksum, whatever else changed in the
\* tree since then.
C10_Insensitive ==
    [][(/\ manifestFile.exists
        /\ manifestFile'.exists
        /\ ManifestEligible(manifestFile') = ManifestEligible(manifestFile))
       => manifestFile'.root_checksum = manifestFile.root_checksum]_vars

\* C12: normalize_version never raises and gives a positive integer, which
\* is 1 when the version is missing or is not a number.
C12_VersionPositive ==
    digest.op = "version" =>
        /\ ~digest.result.raised
        /\ digest.result.value >= 1
        /\ (sample.version.t \in {"none", "str", "list"} => digest.result.value = 1)

\* C13: contents that differ only in line-ending style or in leading and
\* trailing whitespace have the same content checksum and feed the same bytes
\* to the aggregate hash, and normalizing normalized content changes nothing.
C13_Normalization ==
    digest.op = "checksum" =>
        /\ digest.sum = digest.sumOther
        /\ digest.bytes = digest.bytesOther
        /\ digest.again = digest.bytes

\* Two different contents of one text, one with \r\n or \r line ends inside
\* and a form feed at an end.
C13_Witness ==
    /\ digest.op = "checksum"
    /\ digest.other # sample.content
    /\ "\r" \in Range(sample.content)
    /\ "\f" \in Range(sample.content)
    /\ "x" \in Range(digest.bytes)
    /\ "\n" \in Range(digest.bytes)
    /\ digest.sum = digest.sumOther

\* The ids of the eligible part of a manifest.
EligibleIds(m) == {p[1] : p \in ManifestEligible(m)}

\* One change of an active-tracked document between manifests m and n: one
\* eligible document added, one removed, the content of one edited, or one
\* active spec made historical with nothing else touched.
OneChange(m, n) ==
    LET a == ManifestEligible(m)
        b == ManifestEligible(n)
    IN \/ \E p \in b \ a : p[1] \notin EligibleIds(m) /\ b = a \cup {p}
       \/ \E p \in a \ b : p[1] \notin EligibleIds(n) /\ a = b \cup {p}
       \/ \E p \in a \ b : \E q \in b \ a :
             p[1] = q[1] /\ a \ {p} = b \ {q}
       \/ \E d \in Range(m.documents) : \E e \in Range(n.documents) :
             /\ d.kind = "spec" /\ d.status = "active"
             /\ e.id = d.id /\ e.path = d.path /\ e.status = "historical"
             /\ Range(m.documents) \ {d} = Range(n.documents) \ {e}

\* C11: a build after one change of an active-tracked document (added,
\* removed, edited, or an active spec made historical) writes a root_checksum
\* different from that of the manifest it replaces.
C11_Sensitive ==
    [][(/\ manifestFile.exists
        /\ manifestFile'.exists
        /\ OneChange(manifestFile, manifestFile'))
       => manifestFile'.root_checksum # manifestFile.root_checksum]_vars

\* A manifest none of whose documents lies in task directory T-specU.
ApartFromTsU(m) ==
    \A d \in Range(m.documents) : ~(d.path.top = "tasks" /\ d.path.parent = DirTsU)

\* C18: two builds whose eligible mappings (key -> normalized content) are
\* different write different root_checksums.  Stated on the trees without
\* task directory T-specU, where the documents hashed are the eligible ones.
C18_Identifies ==
    [][(/\ manifestFile.exists
        /\ manifestFile'.exists
        /\ ApartFromTsU(manifestFile)
        /\ ApartFromTsU(manifestFile')
        /\ ManifestEligible(manifestFile') # ManifestEligible(manifestFile))
       => manifestFile'.root_checksum # manifestFile.root_checksum]_vars

\* C14: diff writes neither manifests.yaml nor the state file, and the
\* report it computes against the stored manifest is: added, the index keys
\* that are not stored ids; removed, the stored ids that are not index keys;
\* changed, the keys in both whose content checksum differs from the stored one.
C14_DiffReadOnly ==
    [][out'.cmd = "diff" =>
        /\ manifestFile' = manifestFile
        /\ stateFile' = stateFile
        /\ out'.compared = (out'.errors = <<>> /\ stateFile'.exists)
        /\ out'.compared =>
            LET stored == {d.id : d \in Range(stateFile'.documents)}
                current == Keys(out'.index)
            IN /\ Range(out'.report.added) = current \ stored
               /\ Range(out'.report.removed) = stored \ current
               /\ Range(out'.report.changed) =
                    {k \in current \cap stored :
                        \E d \in Range(stateFile'.documents) :
                            /\ d.id = k
                            /\ d.checksum # content_checksum(Raw(FileAt(rules', tasks',
                                                Lookup(out'.index, k).path)))}
               /\ Len(out'.report.added) = Cardinality(current \ stored)
               /\ Len(out'.report.removed) = Cardinality(stored \ current)]_vars

\* A diff that found a key added, a key removed and a key changed, with the
\* stored manifest still the one of the last build.
C14_Witness ==
    /\ out.cmd = "diff"
    /\ out.compared
    /\ out.report.added # <<>>
    /\ out.report.removed # <<>>
    /\ out.report.changed # <<>>
    /\ stateFile.exists
    /\ stateFile = manifestFile

\* C16: the documents list of a manifest has one entry per index key, in
\* ascending key order, with the kind, status, path and content checksum of
\* the document, whether or not root_checksum hashes it.
C16_EveryDocumentListed ==
    (out.cmd = "build-manifest" /\ out.exit = 0) =>
        LET docs == manifestFile.documents IN
        /\ Len(docs) = Len(out.index)
        /\ {docs[i].id : i \in 1..Len(docs)} = Keys(out.index)
        /\ \A i \in 1..(Len(docs) - 1) : StrLess(docs[i].id, docs[i + 1].id)
        /\ \A i \in 1..Len(docs) :
              LET doc == Lookup(out.index, docs[i].id) IN
              /\ docs[i].kind = doc.kind
              /\ docs[i].status = doc.status
              /\ docs[i].path = doc.path
              /\ docs[i].checksum = content_checksum(Raw(FileAt(rules, tasks, doc.path)))

\* A manifest that lists a historical spec and an artifact of its task, both
\* left out of root_checksum, next to documents that are hashed.
C16_Witness ==
    /\ out.cmd = "build-manifest" /\ out.exit = 0
    /\ \E d \in Range(manifestFile.documents) : d.kind = "spec" /\ d.status = "historical"
    /\ \E i \in 1..Len(out.index) :
          /\ out.index[i].doc.kind \in ArtifactKinds
          /\ ~IsEligible(out.index[i], out.index, "active")
          /\ \E d \in Range(manifestFile.documents) : d.id = out.index[i].key
    /\ Len(EligibleList(out.index, "active")) > 1
    /\ Len(manifestFile.documents) > Len(EligibleList(out.index, "active"))

\* C17: manifests.yaml and the state file change only in a build-manifest
\* run whose run_validate returned no error, which writes the same manifest
\* to both; a run with errors exits 1 and leaves both as they were.
C17_BuildGating ==
    [][/\ (out'.cmd = "build-manifest" /\ out'.errors # <<>>) =>
            /\ out'.exit = 1
            /\ manifestFile' = manifestFile
            /\ stateFile' = stateFile
       /\ (manifestFile' # manifestFile \/ stateFile' # stateFile) =>
            /\ out'.cmd = "build-manifest"
            /\ out'.errors = <<>>
            /\ out'.exit = 0
       /\ (out'.cmd = "build-manifest" /\ out'.errors = <<>>) =>
            /\ manifestFile'.exists
            /\ stateFile' = manifestFile'
            /\ manifestFile' = build_manifest(out'.index, rules', tasks')]_vars

\* A build that failed after an earlier one had succeeded: both files still
\* hold the manifest of the earlier build, which lists a document the tree
\* no longer yields.
C17_Witness ==
    /\ out.cmd = "build-manifest"
    /\ out.exit = 1
    /\ out.errors # <<>>
    /\ manifestFile.exists
    /\ stateFile = manifestFile
    /\ {d.id : d \in Range(manifestFile.documents)} # Keys(out.index)

\* run_export was called by the last command: the adapter is configured and
\* run_validate returned no error.
ExportRan(o, a) == o.cmd = "export" /\ a.configured /\ o.errors = <<>>

\* C15: when a declared entry, at whatever position, names a source that is
\* not an existing file, run_export raises and the output directory is left
\* as it was: not created, no file copied into it, no context.json written.
C15_ExportAllOrNothing ==
    [][(/\ ExportRan(out', adapter')
        /\ adapter'.exists
        /\ adapter'.output_dir # ""
        /\ \E i \in 1..Len(adapter'.documents) :
              /\ adapter'.documents[i].source # NoSource
              /\ ~IsFile(rules', tasks', adapter'.documents[i].source))
       => /\ out'.raised # "none"
          /\ out'.exit = 1
          /\ exported' = exported]_vars

\* An export that failed on its second entry after an earlier export had
\* succeeded: the first entry's source exists and was not copied, and the
\* context.json of the earlier export is still there.
C15_Witness ==
    /\ ExportRan(out, adapter)
    /\ out.raised = "FileNotFoundError"
    /\ Len(adapter.documents) = 2
    /\ IsFile(rules, tasks, adapter.documents[1].source)
    /\ ~IsFile(rules, tasks, adapter.documents[2].source)
    /\ exported.exists
    /\ exported.context # <<>>
    /\ \A f \in exported.files : f.target # adapter.documents[1].source

\* C19: in the context.json of a finished export, every entry with a checksum
\* carries the checksum, status and complexity of the file that was copied
\* from its source to its target.
C19_EnrichmentOfCopiedFile ==
    (ExportRan(out, adapter) /\ out.exit = 0) =>
        \A i \in 1..Len(exported.context) :
            LET d == exported.context[i]
                src == FileAt(rules, tasks, d.source)
            IN d.enriched =>
                /\ \E f \in exported.files :
                      f.target = d.target /\ d.checksum = content_checksum(f.content)
                /\ d.status = ParseDocument(d.source, src).status
                /\ d.complexity = ParseDocument(d.source, src).complexity

====
